---- MODULE Spec2Model ----
(***************************************************************************)
(* The TxResponse patchers of the repository: fix_txresponse.py (main,     *)
(* fix_txresponse_in_content, fix_txresponse_fields, get_indent) and       *)
(* fix_all_txresponse.py (fix_txresponse_in_file).                         *)
(*                                                                         *)
(* A Python str is a sequence of one-character strings, so that the        *)
(* regular expressions, str.count, str.strip and the `in` tests are        *)
(* computed character by character.  The text of a file is held as the     *)
(* sequence of its lines, i.e. as content.split('\n'); '\n'.join(lines)    *)
(* is the same text again.  Indices i, j, k are the 0-based indices of the *)
(* Python code; At(s, k) is s[k].                                          *)
(***************************************************************************)
EXTENDS Integers, Sequences, FiniteSets

VARIABLES disk, content, lines, result, writes, argc, pc, run, i, modified,
          exitCode, blocks

vars == <<disk, content, lines, result, writes, argc, pc, run, i, modified,
          exitCode, blocks>>

-----------------------------------------------------------------------------
(* Characters and the str methods the scripts use *)

Digits == {"0", "1", "2", "3", "4", "5", "6", "7", "8", "9"}

Letters ==
  {"a", "b", "c", "d", "e", "f", "g", "h", "i", "j", "k", "l", "m", "n", "o",
   "p", "q", "r", "s", "t", "u", "v", "w", "x", "y", "z", "A", "B", "C", "D",
   "E", "F", "G", "H", "I", "J", "K", "L", "M", "N", "O", "P", "Q", "R", "S",
   "T", "U", "V", "W", "X", "Y", "Z"}

\* \d
IsDigit(c) == c \in Digits

WordChars == Letters \cup Digits \cup {"_"}

\* \w
IsWord(c) == c \in WordChars

\* \s, and the characters str.strip() removes
IsSpace(c) == c \in {" ", "\t", "\n", "\r", "\f"}

At(s, k) == s[k + 1]

\* F(x), with x evaluated once and F applied to its value
With(x, F(_)) == CHOOSE r \in {F(v) : v \in {x}} : TRUE

\* s[a..b-1] (1-based positions a <= b) is all whitespace / digits
AllSpace(s, a, b) == \A r \in a..(b - 1) : IsSpace(s[r])

AllDigit(s, a, b) == \A r \in a..(b - 1) : IsDigit(s[r])

\* the literal lit stands in s at position p
LitAt(s, p, lit) ==
  /\ p + Len(lit) - 1 <= Len(s)
  /\ \A r \in 1..Len(lit) : s[p + r - 1] = lit[r]

\* sub in s
Contains(s, sub) == \E p \in 1..(Len(s) + 1) : LitAt(s, p, sub)

\* s.count(c) for a one-character c
Count(s, c) == Cardinality({r \in 1..Len(s) : s[r] = c})

\* len(s) - len(s.lstrip()): the length of the leading whitespace
LeadLen(s) ==
  CHOOSE n \in 0..Len(s) :
    /\ AllSpace(s, 1, n + 1)
    /\ (n = Len(s) \/ ~IsSpace(s[n + 1]))

\* len(s.rstrip())
RStripLen(s) ==
  CHOOSE n \in 0..Len(s) :
    /\ AllSpace(s, n + 1, Len(s) + 1)
    /\ (n = 0 \/ ~IsSpace(s[n]))

lstrip(s) == SubSeq(s, LeadLen(s) + 1, Len(s))

rstrip(s) == SubSeq(s, 1, RStripLen(s))

strip(s) == rstrip(lstrip(s))

startswith(s, pre) == LitAt(s, 1, pre)

endswith(s, suf) == Len(suf) <= Len(s) /\ LitAt(s, Len(s) - Len(suf) + 1, suf)

\* '\n'.join(ls), from element k (1-based) on, acc the text joined so far
RECURSIVE JoinFrom(_, _, _)
JoinFrom(ls, k, acc) ==
  IF k > Len(ls) THEN acc
  ELSE JoinFrom(ls, k + 1,
                IF k = 1 THEN ls[k] ELSE acc \o <<"\n">> \o ls[k])

join(ls) == JoinFrom(ls, 1, <<>>)

\* get_indent(line): line[:len(line) - len(line.lstrip())]
get_indent(line) == SubSeq(line, 1, LeadLen(line))

-----------------------------------------------------------------------------
(* The text literals of the scripts *)

S_opener == <<"T", "x", "R", "e", "s", "p", "o", "n", "s", "e", " ", "{">>
S_data == <<"d", "a", "t", "a">>
S_info == <<"i", "n", "f", "o">>
S_codespace == <<"c", "o", "d", "e", "s", "p", "a", "c", "e">>
S_code == <<"c", "o", "d", "e">>
S_log == <<"l", "o", "g">>
S_events == <<"e", "v", "e", "n", "t", "s">>
S_gas_wanted == <<"g", "a", "s", "_", "w", "a", "n", "t", "e", "d">>
S_gas_used == <<"g", "a", "s", "_", "u", "s", "e", "d">>
S_as == <<"a", "s">>
S_i64 == <<"i", "6", "4">>
S_as_i64 == <<" ", "a", "s", " ", "i", "6", "4">>
S_as_i64_comma == <<" ", "a", "s", " ", "i", "6", "4", ",">>
S_data_new ==
  <<"d", "a", "t", "a", ":", " ", "v", "e", "c", "!", "[", "]", ",">>
S_info_new ==
  <<"i", "n", "f", "o", ":", " ", "S", "t", "r", "i", "n", "g", ":", ":", "n",
    "e", "w", "(", ")", ",">>
S_codespace_new ==
  <<"c", "o", "d", "e", "s", "p", "a", "c", "e", ":", " ", "S", "t", "r", "i",
    "n", "g", ":", ":", "n", "e", "w", "(", ")", ",">>

-----------------------------------------------------------------------------
(* The regular expressions of fix_txresponse.py.  A search succeeds when   *)
(* some choice of the positions where each part of the pattern ends        *)
(* matches: that is what the backtracking matcher decides.                 *)

\* \b at position p: between s[p-1] and s[p]
WordBoundary(s, p) ==
  LET before == p > 1 /\ p - 1 <= Len(s) /\ IsWord(s[p - 1])
      after == p <= Len(s) /\ IsWord(s[p])
  IN  before # after

\* the positions just after a match of  \bNAME\s*:  that starts at p
AfterColon(s, p, name) ==
  IF LitAt(s, p, name) /\ WordBoundary(s, p)
  THEN {a + 1 : a \in {a \in (p + Len(name))..Len(s) :
                         AllSpace(s, p + Len(name), a) /\ s[a] = ":"}}
  ELSE {}

\* re.search(r'\bNAME\s*:', s)
HasField(s, name) == \E p \in 1..Len(s) : AfterColon(s, p, name) # {}

\* the lookahead body  \s*as\s*i64  matches at position e
LookAsI64(s, e) ==
  \E x \in e..(Len(s) + 1) :
    /\ AllSpace(s, e, x)
    /\ LitAt(s, x, S_as)
    /\ \E y \in (x + 2)..(Len(s) + 1) :
         AllSpace(s, x + 2, y) /\ LitAt(s, y, S_i64)

\* the lookahead body  \s*,  matches at position e
LookComma(s, e) ==
  \E x \in e..Len(s) : AllSpace(s, e, x) /\ s[x] = ","

\* re.search(r'\bNAME\s*:\s*\d+(?!\s*as\s*i64)', s)
SearchGasDigits(s, name) ==
  \E p \in 1..Len(s) : \E c \in AfterColon(s, p, name) :
    \E b \in c..Len(s) :
      /\ AllSpace(s, c, b)
      /\ \E e \in (b + 1)..(Len(s) + 1) :
           AllDigit(s, b, e) /\ ~LookAsI64(s, e)

\* re.search(r'\bNAME\s*:\s*[^,\s]+(?!\s*as\s*i64)(?=\s*,)', s)
SearchGasToken(s, name) ==
  \E p \in 1..Len(s) : \E c \in AfterColon(s, p, name) :
    \E b \in c..Len(s) :
      /\ AllSpace(s, c, b)
      /\ \E e \in (b + 1)..(Len(s) + 1) :
           /\ \A r \in b..(e - 1) : s[r] # "," /\ ~IsSpace(s[r])
           /\ ~LookAsI64(s, e)
           /\ LookComma(s, e)

\* re.search(r'\bcode\s*:\s*\d+\s*,', s)
SearchCode(s) ==
  \E p \in 1..Len(s) : \E c \in AfterColon(s, p, S_code) :
    \E b \in c..Len(s) :
      /\ AllSpace(s, c, b)
      /\ \E e \in (b + 1)..Len(s) : AllDigit(s, b, e) /\ LookComma(s, e)

\* re.search(r'\bNAME\s*:.*,', s) on a line (no '\n' in it)
SearchFieldComma(s, name) ==
  \E p \in 1..Len(s) : \E c \in AfterColon(s, p, name) :
    \E x \in c..Len(s) : s[x] = ","

Max(S) == CHOOSE m \in S : \A n \in S : n <= m

\* the end (exclusive) of the match of  (\bNAME\s*:\s*)(\d+)  that starts at
\* p, the digits taken greedily; 0 when there is no match at p
DigitsMatchEnd(s, p, name) ==
  LET E == {e \in (p + 1)..(Len(s) + 1) :
              \E c \in AfterColon(s, p, name) : \E b \in c..Len(s) :
                AllSpace(s, c, b) /\ e > b /\ AllDigit(s, b, e)}
  IN  IF E = {} THEN 0 ELSE Max(E)

Min(S) == CHOOSE m \in S : \A n \in S : m <= n

\* re.sub(r'(\bNAME\s*:\s*)(\d+)', r'\1\2 as i64', s), from position p on:
\* the leftmost match gets ' as i64' after its digits, and the substitution
\* goes on after it
RECURSIVE SubGasDigitsFrom(_, _, _)
SubGasDigitsFrom(s, p, name) ==
  LET starts == {q \in p..Len(s) : DigitsMatchEnd(s, q, name) # 0}
  IN  IF starts = {} THEN SubSeq(s, p, Len(s))
      ELSE With(DigitsMatchEnd(s, Min(starts), name),
                LAMBDA e : SubSeq(s, p, e - 1) \o S_as_i64
                             \o SubGasDigitsFrom(s, e, name))

SubGasDigits(s, name) == SubGasDigitsFrom(s, 1, name)

\* the start of group 2 in the match of  (\bNAME\s*:\s*)([^,]+)  that starts
\* at p: \s* takes as much as leaves one character for [^,]+; 0: no match
TokenStart(s, p, name) ==
  LET G == {g \in (p + 1)..Len(s) :
              \E c \in AfterColon(s, p, name) :
                g >= c /\ AllSpace(s, c, g) /\ s[g] # ","}
  IN  IF G = {} THEN 0 ELSE Max(G)

\* the end (exclusive) of the greedy [^,]+ that starts at g
TokenEnd(s, g) ==
  Max({e \in (g + 1)..(Len(s) + 1) : \A r \in g..(e - 1) : s[r] # ","})

\* re.sub(r'(\bNAME\s*:\s*)([^,]+)', repl, s) from position p on, with repl
\* r'\1(\2) as i64' (parens) or r'\1\2 as i64'
RECURSIVE SubGasTokenFrom(_, _, _, _)
SubGasTokenFrom(s, p, name, parens) ==
  LET starts == {q \in p..Len(s) : TokenStart(s, q, name) # 0}
  IN  IF starts = {} THEN SubSeq(s, p, Len(s))
      ELSE With(TokenStart(s, Min(starts), name),
                LAMBDA g :
                  With(TokenEnd(s, g),
                       LAMBDA e :
                         SubSeq(s, p, g - 1)
                           \o (IF parens THEN <<"(">> ELSE <<>>)
                           \o SubSeq(s, g, e - 1)
                           \o (IF parens THEN <<")">> ELSE <<>>)
                           \o S_as_i64
                           \o SubGasTokenFrom(s, e, name, parens)))

SubGasToken(s, name, parens) == SubGasTokenFrom(s, 1, name, parens)

-----------------------------------------------------------------------------
(* fix_txresponse.py: fix_txresponse_fields *)

\* lines 80-84: the gas_wanted rewrite of one line
FixGasWanted(line) ==
  IF SearchGasDigits(line, S_gas_wanted)
  THEN SubGasDigits(line, S_gas_wanted)
  ELSE IF SearchGasToken(line, S_gas_wanted)
       THEN SubGasToken(line, S_gas_wanted, TRUE)
       ELSE line

\* lines 86-90: the gas_used rewrite of one line
FixGasUsed(line) ==
  IF SearchGasDigits(line, S_gas_used)
  THEN SubGasDigits(line, S_gas_used)
  ELSE IF SearchGasToken(line, S_gas_used)
       THEN SubGasToken(line, S_gas_used, FALSE)
       ELSE line

\* lines 109-111: the line after txresponse_lines[k] starts the closing
NextLineCloses(txresponse_lines, k) ==
  /\ k + 1 < Len(txresponse_lines)
  /\ LET next_line == strip(At(txresponse_lines, k + 1))
     IN  startswith(next_line, <<"}">>) \/ startswith(next_line, <<"}", ")">>)

\* lines 80-92: the line appended for txresponse_lines[k]
FixedLine(line) == With(FixGasWanted(line), LAMBDA l : FixGasUsed(l))

\* lines 92-117: the loop body after the gas rewrites gave `line`; st holds
\* fixed_lines and the has_ flags
Step(txresponse_lines, k, st, line) ==
  LET indent == get_indent(line)
      f1 == Append(st.fixed_lines, line)
      addData == ~st.has_data /\ SearchCode(line)
      f2 == IF addData THEN Append(f1, indent \o S_data_new) ELSE f1
      addInfo == ~st.has_info /\ SearchFieldComma(line, S_log)
      f3 == IF addInfo THEN Append(f2, indent \o S_info_new) ELSE f2
      addCodespace ==
        /\ ~st.has_codespace
        /\ SearchFieldComma(line, S_events)
        /\ NextLineCloses(txresponse_lines, k)
      f4 == IF addCodespace
            THEN Append(IF ~endswith(rstrip(line), <<",">>)
                        THEN [f3 EXCEPT ![Len(f3)] = rstrip(line) \o <<",">>]
                        ELSE f3,
                        indent \o S_codespace_new)
            ELSE f3
  IN  [fixed_lines |-> f4,
       has_data |-> st.has_data \/ addData,
       has_info |-> st.has_info \/ addInfo,
       has_codespace |-> st.has_codespace \/ addCodespace]

\* lines 78-119: the loop from index k on
RECURSIVE FixLoop(_, _, _)
FixLoop(txresponse_lines, k, st) ==
  IF k >= Len(txresponse_lines) THEN st.fixed_lines
  ELSE With(With(FixedLine(At(txresponse_lines, k)),
                 LAMBDA line : Step(txresponse_lines, k, st, line)),
            LAMBDA st2 : FixLoop(txresponse_lines, k + 1, st2))

\* fix_txresponse_fields(txresponse_lines)
fix_txresponse_fields(txresponse_lines) ==
  With(join(txresponse_lines),
       LAMBDA full_text :
         FixLoop(txresponse_lines, 0,
                 [fixed_lines |-> <<>>,
                  has_data |-> HasField(full_text, S_data),
                  has_info |-> HasField(full_text, S_info),
                  has_codespace |-> HasField(full_text, S_codespace)]))

-----------------------------------------------------------------------------
(* Buffers.  fix_txresponse_in_content reads and writes lines[k] only for  *)
(* k >= start_line - 1, so a text is held as the name of its first lines   *)
(* (`head`, at most start_line - 1 of them, never indexed) and the         *)
(* sequence of the lines that follow (`rest`).  LineAt and Overwrite are   *)
(* defined on `rest` alone: an access below the head's length has no value.*)

\* the start_line main passes to fix_txresponse_in_content
start_line == 670

L_open ==
  <<"O", "k", "(", "T", "x", "R", "e", "s", "p", "o", "n", "s", "e", " ", "{">>
L_code == <<" ", " ", "c", "o", "d", "e", ":", " ", "0", ",">>
L_close == <<"}", ")">>

Filler(n) == [k \in 1..n |-> <<>>]

TopBlock == <<L_open, L_code, L_close>>

\* the number of lines a head name stands for
HeadLen(h) ==
  CASE h = "none" -> 0
    [] h = "blank" -> start_line - 1
    [] h = "block" -> start_line - 1
    [] h = "short" -> Len(TopBlock)

\* the lines a head name stands for: none, blank lines, a block and then
\* blank lines, a block
HeadLines(h) ==
  CASE h = "none" -> <<>>
    [] h = "blank" -> Filler(HeadLen(h))
    [] h = "block" -> TopBlock \o Filler(HeadLen(h) - Len(TopBlock))
    [] h = "short" -> TopBlock

Text(h, rest) == [head |-> h, rest |-> rest]

\* all the lines of a text: content.split('\n')
AllLines(t) == HeadLines(t.head) \o t.rest

Base(ls) == HeadLen(ls.head)

\* len(lines)
NumLines(ls) == Base(ls) + Len(ls.rest)

\* lines[k], k >= Base(ls)
LineAt(ls, k) == ls.rest[k - Base(ls) + 1]

\* lines[a:b], a >= Base(ls)
Slice(ls, a, b) == SubSeq(ls.rest, a - Base(ls) + 1, b - Base(ls))

-----------------------------------------------------------------------------
(* fix_txresponse.py: fix_txresponse_in_content and main *)

\* sys.argv[1], and file_path + '.backup'
file_path == <<"l", "i", "b", ".", "r", "s">>

backup_path == file_path \o <<".", "b", "a", "c", "k", "u", "p">>

\* a path that holds no file
NoFile == [exists |-> FALSE, text |-> Text("none", <<>>)]

File(text) == [exists |-> TRUE, text |-> text]

\* lines 35-41: the collecting loop from index j on; the j and brace_count
\* it ends with
RECURSIVE CollectEnd(_, _, _)
CollectEnd(ls, j, brace_count) ==
  IF j < NumLines(ls) /\ brace_count > 0
  THEN With(brace_count + Count(LineAt(ls, j), "{")
                        - Count(LineAt(ls, j), "}"),
            LAMBDA b : CollectEnd(ls, j + 1, b))
  ELSE [j |-> j, brace_count |-> brace_count]

\* lines 49-51: lines[i0 + k] = fixed_line for each k with i0 + k < len(lines)
Overwrite(ls, i0, fixed_lines) ==
  [ls EXCEPT !.rest =
     [n \in 1..Len(ls.rest) |->
        LET k == Base(ls) + n - 1 - i0
        IN  IF k >= 0 /\ k < Len(fixed_lines) THEN At(fixed_lines, k)
            ELSE ls.rest[n]]]

\* lines 16-22, reached from main line 141 after the checks of lines 126-138
MainRead ==
  /\ pc = "main"
  /\ argc' = 2
  /\ disk[file_path].exists
  /\ content' = disk[file_path].text
  /\ lines' = disk[file_path].text
  /\ i' = start_line - 1
  /\ modified' = FALSE
  /\ pc' = "scan"
  /\ UNCHANGED <<disk, result, writes, run, exitCode, blocks>>

\* lines 126-128: wrong argument count
MainUsage ==
  /\ pc = "main"
  /\ \E n \in {1, 3} : argc' = n
  /\ pc' = "exit"
  /\ exitCode' = 1
  /\ UNCHANGED <<disk, content, lines, result, writes, run, i, modified, blocks>>

\* lines 132-134: no file at file_path
MainNotFound ==
  /\ pc = "main"
  /\ argc' = 2
  /\ ~disk[file_path].exists
  /\ pc' = "exit"
  /\ exitCode' = 1
  /\ UNCHANGED <<disk, content, lines, result, writes, run, i, modified, blocks>>

\* lines 24-28, 55-56: a line without the opener
ScanSkip ==
  /\ pc = "scan"
  /\ i < NumLines(lines)
  /\ ~Contains(LineAt(lines, i), S_opener)
  /\ i' = i + 1
  /\ UNCHANGED <<disk, content, lines, result, writes, argc, pc, run,
                 modified, exitCode, blocks>>

\* lines 28-54: a line with the opener: collect, fix, overwrite, move on
ScanBlock ==
  /\ pc = "scan"
  /\ i < NumLines(lines)
  /\ Contains(LineAt(lines, i), S_opener)
  /\ \E c \in {CollectEnd(lines, i + 1, 1)} :
     \E txresponse_lines \in {Slice(lines, i, c.j)} :
     \E fixed_lines \in {fix_txresponse_fields(txresponse_lines)} :
         /\ modified' = (modified \/ fixed_lines # txresponse_lines)
         /\ lines' = IF fixed_lines # txresponse_lines
                     THEN Overwrite(lines, i, fixed_lines)
                     ELSE lines
         /\ i' = c.j
         /\ blocks' = Append(blocks,
                             [start |-> i, end |-> c.j,
                              closed |-> c.brace_count <= 0,
                              tx |-> txresponse_lines, fixed |-> fixed_lines])
  /\ UNCHANGED <<disk, content, result, writes, argc, pc, run, exitCode>>

\* lines 24, 58: the loop ends and the text and modified are returned
ScanReturn ==
  /\ pc = "scan"
  /\ i >= NumLines(lines)
  /\ pc' = "decide"
  /\ UNCHANGED <<disk, content, lines, result, writes, argc, run, i, modified,
                 exitCode, blocks>>

\* a backup taken of the fixed content instead of the content read
BackupTextFixed(read_content, fixed_content) == fixed_content

\* line 147: what is written to the backup file
BackupText(read_content, fixed_content) == read_content

\* lines 143-148: the backup of the content read
MainBackup ==
  /\ pc = "decide"
  /\ modified
  /\ disk' = [disk EXCEPT ![backup_path] = File(BackupText(content, lines))]
  /\ writes' = Append(writes, backup_path)
  /\ pc' = "write"
  /\ UNCHANGED <<content, lines, result, argc, run, i, modified, exitCode,
                 blocks>>

\* lines 150-154: the fixed content replaces the file
MainWrite ==
  /\ pc = "write"
  /\ disk' = [disk EXCEPT ![file_path] = File(lines)]
  /\ writes' = Append(writes, file_path)
  /\ pc' = "exit"
  /\ exitCode' = 0
  /\ UNCHANGED <<content, lines, result, argc, run, i, modified, blocks>>

\* lines 155-156: no changes needed
MainNoChange ==
  /\ pc = "decide"
  /\ ~modified
  /\ pc' = "exit"
  /\ exitCode' = 0
  /\ UNCHANGED <<disk, content, lines, result, writes, argc, run, i, modified,
                 blocks>>

\* after a run that ended with exit code 0 the script is run a second time,
\* on what the first run left on disk
Rerun ==
  /\ pc = "exit"
  /\ exitCode = 0
  /\ run = "first"
  /\ run' = "second"
  /\ pc' = "main"
  /\ content' = Text("none", <<>>)
  /\ lines' = Text("none", <<>>)
  /\ writes' = <<>>
  /\ blocks' = <<>>
  /\ i' = 0
  /\ modified' = FALSE
  /\ exitCode' = 0
  /\ argc' = 0
  /\ UNCHANGED <<disk, result>>

-----------------------------------------------------------------------------
(* The files the scripts are run on *)

\* the most lines that follow the block
MaxAfter == 3

L_data == <<" ", " ">> \o S_data_new
L_log == <<" ", " ", "l", "o", "g", ":", " ", "\"", "o", "k", "\"", ",">>
L_info == <<" ", " ">> \o S_info_new
L_events ==
  <<" ", " ", "e", "v", "e", "n", "t", "s", ":", " ", "v", "e", "c", "!", "[",
    "]", ",">>
L_events_last ==
  <<" ", " ", "e", "v", "e", "n", "t", "s", ":", " ", "v", "e", "c", "!", "[",
    "]">>
L_codespace == <<" ", " ">> \o S_codespace_new
L_else == <<"}", " ", "e", "l", "s", "e", " ", "{">>
L_brace == <<"}">>
L_next == <<"n", "e", "x", "t", "(", ")", ";">>
L_fn == <<"f", "n", " ", "f", "(", ")", " ", "{">>

V_100 == <<"1", "0", "0">>
V_50 == <<"5", "0">>
V_total == <<"t", "o", "t", "a", "l">>

GasLine(name, value) == <<" ", " ">> \o name \o <<":", " ">> \o value \o <<",">>

WantedValues ==
  {V_100, V_total, V_100 \o S_as_i64, <<"7">> \o S_as_i64,
   <<"(">> \o V_total \o <<")">> \o S_as_i64}

UsedValues == {V_50, V_total \o S_as_i64}

CodeParts == {<<>>, <<L_code>>, <<L_code, L_data>>}
LogParts == {<<L_log>>, <<L_log, L_info>>}
WantedParts == {<<GasLine(S_gas_wanted, v)>> : v \in WantedValues}
UsedParts == {<<GasLine(S_gas_used, v)>> : v \in UsedValues}
EventsParts ==
  {<<>>, <<L_events>>, <<L_events_last>>, <<L_events, L_codespace>>}

\* the closing of a block: closed, left open, or closed on a line that
\* opens another brace
Ends == {<<L_close>>, <<>>, <<L_else, L_brace>>}

Bodies ==
  {c \o l \o w \o u \o e :
     c \in CodeParts, l \in LogParts, w \in WantedParts, u \in UsedParts,
     e \in EventsParts}

Blocks == {<<L_open>> \o b \o e : b \in Bodies, e \in Ends}

\* what follows the block: up to MaxAfter other lines, or a line and a
\* second block
SecondBlock == <<L_open, GasLine(S_gas_used, V_50), L_close>>

Afters ==
  {[n \in 1..k |-> L_next] : k \in 0..MaxAfter}
    \cup {<<L_next>> \o SecondBlock}

Tails == {<<>>} \cup {b \o a : b \in Blocks, a \in Afters}

\* files whose first start_line - 1 lines are blank, then a block and what
\* follows it; a file with a block before start_line; a file of three lines
InputFiles ==
  {Text("blank", t) : t \in Tails}
    \cup {Text("block", <<>>), Text("short", <<>>)}

Init ==
  /\ disk \in {[p \in {file_path, backup_path} |->
                  IF p = file_path THEN f ELSE NoFile] :
               f \in {NoFile} \cup {File(t) : t \in InputFiles}}
  /\ content = Text("none", <<>>)
  /\ lines = Text("none", <<>>)
  /\ result = <<>>
  /\ writes = <<>>
  /\ argc = 0
  /\ pc = "main"
  /\ run = "first"
  /\ i = 0
  /\ modified = FALSE
  /\ exitCode = 0
  /\ blocks = <<>>

Next ==
  \/ MainUsage
  \/ MainNotFound
  \/ MainRead
  \/ ScanSkip
  \/ ScanBlock
  \/ ScanReturn
  \/ MainBackup
  \/ MainWrite
  \/ MainNoChange
  \/ Rerun

Spec == Init /\ [][Next]_vars

-----------------------------------------------------------------------------
(* fix_all_txresponse.py: fix_txresponse_in_file and the script body *)

S_data_colon == S_data \o <<":">>
S_info_colon == S_info \o <<":">>
S_codespace_colon == S_codespace \o <<":">>
S_code_colon == S_code \o <<":">>
S_log_colon == S_log \o <<":">>
S_events_colon == S_events \o <<":">>
S_gas_wanted_colon == S_gas_wanted \o <<":">>
S_gas_used_colon == S_gas_used \o <<":">>

\* ' ' * (len(tx_line) - len(tx_line.lstrip()))
Spaces(tx_line) == [n \in 1..LeadLen(tx_line) |-> " "]

\* lines 55-58, 62-65: ' as i64' before the trailing comma, or at the end
AddAsI64(tx_line) ==
  IF endswith(rstrip(tx_line), <<",">>)
  THEN SubSeq(rstrip(tx_line), 1, Len(rstrip(tx_line)) - 1) \o S_as_i64_comma
  ELSE rstrip(tx_line) \o S_as_i64

\* lines 27-76: the inner loop's body for tx_line = lines[j], brace_count
\* already updated; st holds tx_response_lines and the has_ flags
AllStep(st, tx_line, brace_count) ==
  LET has_data == st.has_data \/ Contains(tx_line, S_data_colon)
      has_info == st.has_info \/ Contains(tx_line, S_info_colon)
      has_codespace ==
        st.has_codespace \/ Contains(tx_line, S_codespace_colon)
      seen == [st EXCEPT !.has_data = has_data, !.has_info = has_info,
                         !.has_codespace = has_codespace]
      out == st.tx_response_lines
  IN  IF Contains(tx_line, S_code_colon) /\ ~has_data
      THEN [seen EXCEPT
              !.tx_response_lines =
                 out \o <<tx_line, Spaces(tx_line) \o S_data_new>>,
              !.has_data = TRUE]
      ELSE IF Contains(tx_line, S_log_colon) /\ ~has_info
      THEN [seen EXCEPT
              !.tx_response_lines =
                 out \o <<tx_line, Spaces(tx_line) \o S_info_new>>,
              !.has_info = TRUE]
      ELSE IF Contains(tx_line, S_gas_wanted_colon)
                /\ ~Contains(tx_line, S_as_i64)
      THEN [seen EXCEPT !.tx_response_lines = Append(out, AddAsI64(tx_line))]
      ELSE IF Contains(tx_line, S_gas_used_colon)
                /\ ~Contains(tx_line, S_as_i64)
      THEN [seen EXCEPT !.tx_response_lines = Append(out, AddAsI64(tx_line))]
      ELSE IF Contains(tx_line, S_events_colon) /\ ~has_codespace
                /\ brace_count = 1
      THEN [seen EXCEPT
              !.tx_response_lines =
                 out \o <<tx_line, Spaces(tx_line) \o S_codespace_new>>,
              !.has_codespace = TRUE]
      ELSE [seen EXCEPT !.tx_response_lines = Append(out, tx_line)]

\* lines 26-76: the inner loop from index j on; the j it ends with, the
\* brace_count and tx_response_lines
RECURSIVE AllInner(_, _, _, _)
AllInner(ls, j, brace_count, st) ==
  IF j < NumLines(ls) /\ brace_count > 0
  THEN With(brace_count + Count(LineAt(ls, j), "{")
                        - Count(LineAt(ls, j), "}"),
            LAMBDA b :
              With(AllStep(st, LineAt(ls, j), b),
                   LAMBDA st2 : AllInner(ls, j + 1, b, st2)))
  ELSE [j |-> j, brace_count |-> brace_count,
        tx_response_lines |-> st.tx_response_lines]

\* lines 90-92: wrong argument count
AllUsage ==
  /\ pc = "main"
  /\ \E n \in {1, 3} : argc' = n
  /\ pc' = "exit"
  /\ exitCode' = 1
  /\ UNCHANGED <<disk, content, lines, result, writes, run, i, modified, blocks>>

\* lines 6-7: open() of a path that holds no file raises, and the script ends
AllNotFound ==
  /\ pc = "main"
  /\ argc' = 2
  /\ ~disk[file_path].exists
  /\ pc' = "exit"
  /\ exitCode' = 1
  /\ UNCHANGED <<disk, content, lines, result, writes, run, i, modified, blocks>>

\* lines 6-11
AllRead ==
  /\ pc = "main"
  /\ argc' = 2
  /\ disk[file_path].exists
  /\ content' = disk[file_path].text
  /\ lines' = disk[file_path].text
  /\ result' = <<>>
  /\ i' = 0
  /\ pc' = "scan"
  /\ UNCHANGED <<disk, writes, run, modified, exitCode, blocks>>

\* line 17: the line opens a block
IsOpener(ls, k) == Contains(LineAt(ls, k), S_opener) /\ k > 0

\* lines 13-17, 81-83: any other line goes to the result
AllAppend ==
  /\ pc = "scan"
  /\ i < NumLines(lines)
  /\ ~IsOpener(lines, i)
  /\ result' = Append(result, LineAt(lines, i))
  /\ i' = i + 1
  /\ UNCHANGED <<disk, content, lines, writes, argc, pc, run, modified,
                 exitCode, blocks>>

\* line 79: what a block adds to the result
BlockResult(tx_response_lines) == Tail(tx_response_lines)

\* lines 17-80: a block is collected and patched
AllBlock ==
  /\ pc = "scan"
  /\ i < NumLines(lines)
  /\ IsOpener(lines, i)
  /\ \E r \in {AllInner(lines, i + 1, 1,
                        [tx_response_lines |-> <<LineAt(lines, i)>>,
                         has_data |-> FALSE, has_info |-> FALSE,
                         has_codespace |-> FALSE])} :
       /\ result' = result \o BlockResult(r.tx_response_lines)
       /\ i' = r.j
       /\ blocks' = Append(blocks,
                           [start |-> i, end |-> r.j,
                            closed |-> r.brace_count <= 0,
                            tx |-> Slice(lines, i, r.j),
                            fixed |-> r.tx_response_lines])
  /\ UNCHANGED <<disk, content, lines, writes, argc, pc, run, modified,
                 exitCode>>

\* lines 13, 85-87, 95: the loop ends and the result is written back
AllWrite ==
  /\ pc = "scan"
  /\ i >= NumLines(lines)
  /\ disk' = [disk EXCEPT ![file_path] = File(Text("none", result))]
  /\ writes' = Append(writes, file_path)
  /\ pc' = "exit"
  /\ exitCode' = 0
  /\ UNCHANGED <<content, lines, result, argc, run, i, modified, blocks>>

\* after a run that ended with exit code 0 the script is run a second time,
\* on what the first run left on disk
AllRerun ==
  /\ pc = "exit"
  /\ exitCode = 0
  /\ run = "first"
  /\ run' = "second"
  /\ pc' = "main"
  /\ content' = Text("none", <<>>)
  /\ lines' = Text("none", <<>>)
  /\ result' = <<>>
  /\ writes' = <<>>
  /\ blocks' = <<>>
  /\ i' = 0
  /\ exitCode' = 0
  /\ argc' = 0
  /\ UNCHANGED <<disk, modified>>

\* files made of a block and what follows it, the opener on the first line
\* or after a line
AllInputFiles ==
  {Text("none", h \o t) : h \in {<<>>, <<L_fn>>}, t \in Tails \ {<<>>}}
    \cup {Text("none", <<L_fn>>)}

InitAll ==
  /\ disk \in {[p \in {file_path, backup_path} |->
                  IF p = file_path THEN f ELSE NoFile] :
               f \in {NoFile} \cup {File(t) : t \in AllInputFiles}}
  /\ content = Text("none", <<>>)
  /\ lines = Text("none", <<>>)
  /\ result = <<>>
  /\ writes = <<>>
  /\ argc = 0
  /\ pc = "main"
  /\ run = "first"
  /\ i = 0
  /\ modified = FALSE
  /\ exitCode = 0
  /\ blocks = <<>>

NextAll ==
  \/ AllUsage
  \/ AllNotFound
  \/ AllRead
  \/ AllAppend
  \/ AllBlock
  \/ AllWrite
  \/ AllRerun

SpecAll == InitAll /\ [][NextAll]_vars

-----------------------------------------------------------------------------
(* Properties of fix_txresponse.py, checked under Spec *)

\* some block of this run was changed by fix_txresponse_fields
SomeBlockChanged ==
  \E n \in 1..Len(blocks) : blocks[n].fixed # blocks[n].tx

\* this run read the file: it passed the checks of lines 126-134
RunRead == argc = 2 /\ disk[file_path].exists /\ pc # "main"

\* C1: idempotence.  A second run on the result of a first run leaves the
\* file as the first run left it and takes the "No changes needed" branch:
\* modified is False and nothing is written.
C1_Idempotent ==
  (pc = "exit" /\ run = "second" /\ RunRead)
    => /\ disk[file_path].text = content
       /\ ~modified
       /\ writes = <<>>

\* the lines of text a (1-based positions from ia on, those for which
\* keep[ia] holds) occur in b from ib on, in the same order
RECURSIVE SubseqFrom(_, _, _, _, _)
SubseqFrom(a, keep, b, ia, ib) ==
  IF ia > Len(a) THEN TRUE
  ELSE IF ~keep[ia] THEN SubseqFrom(a, keep, b, ia + 1, ib)
  ELSE IF ib > Len(b) THEN FALSE
  ELSE IF a[ia] = b[ib] THEN SubseqFrom(a, keep, b, ia + 1, ib + 1)
  ELSE SubseqFrom(a, keep, b, ia, ib + 1)

\* index k (0-based) of the buffer lies in no located block
Outside(k) == \A n \in 1..Len(blocks) : k < blocks[n].start \/ k >= blocks[n].end

\* C2: non-interference.  In the text fix_txresponse_in_content returns,
\* every line of the input outside all located blocks occurs unchanged and
\* in the same relative order.  (The lines before start_line are the same
\* head; the subsequence test is on the lines from start_line on.)
C2_NonInterference ==
  pc = "decide"
    => /\ lines.head = content.head
       /\ SubseqFrom(content.rest,
                     [n \in 1..Len(content.rest) |->
                        Outside(Base(content) + n - 1)],
                     lines.rest, 1, 1)

\* the number of matches of  \bNAME\s*:  in the lines ls
FieldCount(ls, name) ==
  Cardinality(UNION {{<<n, q>> : q \in {q \in 1..Len(ls[n]) :
                                          AfterColon(ls[n], q, name) # {}}} :
                     n \in 1..Len(ls)})

\* the number of times ' as i64' stands in the line s
AsI64Count(s) == Cardinality({q \in 1..Len(s) : LitAt(s, q, S_as_i64)})

\* a block's lines hold data, info and codespace once each, and every
\* gas_wanted and gas_used line carries ' as i64' once
CompleteBlock(ls) ==
  /\ FieldCount(ls, S_data) = 1
  /\ FieldCount(ls, S_info) = 1
  /\ FieldCount(ls, S_codespace) = 1
  /\ \A n \in 1..Len(ls) :
       (HasField(ls[n], S_gas_wanted) \/ HasField(ls[n], S_gas_used))
         => AsI64Count(ls[n]) = 1

\* C3: field completeness.  In the file a run leaves, every well-formed
\* block (an opener line anywhere in the file, the depth back at zero)
\* holds data, info and codespace exactly once and its gas values carry
\* ' as i64' exactly once.
C3_FieldCompleteness ==
  (pc = "exit" /\ run = "first" /\ RunRead)
    => \E out \in {Text("none", AllLines(disk[file_path].text))} :
         \A k \in 0..(NumLines(out) - 1) :
           Contains(LineAt(out, k), S_opener)
             => \E c \in {CollectEnd(out, k + 1, 1)} :
                  c.brace_count <= 0 => CompleteBlock(Slice(out, k, c.j))

\* the line's gas value already ends with ' as i64'
AnnotatedGas(s) ==
  /\ HasField(s, S_gas_wanted) \/ HasField(s, S_gas_used)
  /\ \E t \in {rstrip(s)} :
       \/ endswith(t, S_as_i64)
       \/ endswith(t, <<",">>)
            /\ endswith(rstrip(SubSeq(t, 1, Len(t) - 1)), S_as_i64)

\* the line holds one of the other fields
OtherField(s) ==
  \E name \in {S_code, S_data, S_log, S_info, S_events, S_codespace} :
    HasField(s, name)

\* C4: value preservation.  A block line whose gas_wanted or gas_used value
\* already ends with ' as i64', and a line of any other field already
\* present, is returned by fix_txresponse_fields character for character.
C4_ValuePreservation ==
  \A n \in 1..Len(blocks) : \A m \in 1..Len(blocks[n].tx) :
    \E s \in {blocks[n].tx[m]} :
      (AnnotatedGas(s) \/ OtherField(s))
        => \E r \in 1..Len(blocks[n].fixed) : blocks[n].fixed[r] = s

\* C5: the backup protocol of main.  The target is overwritten only if some
\* block was changed (fix_txresponse_fields returned other lines than it was
\* given, which is what sets modified), and then after a backup holding
\* exactly the content read was written to file_path + '.backup'; a run in
\* which no block changed writes neither file and ends with exit code 0.
C5_BackupProtocol ==
  /\ writes \in {<<>>, <<backup_path>>, <<backup_path, file_path>>}
  /\ writes # <<>>
       => /\ SomeBlockChanged
          /\ disk[backup_path] = File(content)
  /\ writes = <<backup_path>>
       => pc = "write" /\ disk[file_path] = File(content)
  /\ writes = <<backup_path, file_path>>
       => pc = "exit" /\ exitCode = 0 /\ disk[file_path] = File(lines)
  /\ (pc = "exit" /\ RunRead /\ ~SomeBlockChanged)
       => writes = <<>> /\ exitCode = 0 /\ disk[file_path] = File(content)

\* a run that changed the file, its backup holding the content read
C5_Witness ==
  /\ pc = "exit"
  /\ writes = <<backup_path, file_path>>
  /\ disk[backup_path].text = content
  /\ disk[file_path].text # content

\* C6: an unterminated block (the end of the buffer reached with the depth
\* above zero) is left alone: no line from its opener to the end of the
\* buffer is changed and it does not make modified True.
C6_UnterminatedUntouched ==
  \A n \in 1..Len(blocks) :
    ~blocks[n].closed
      => /\ blocks[n].fixed = blocks[n].tx
         /\ Slice(lines, blocks[n].start, NumLines(lines)) = blocks[n].tx

\* the block of the example scenario and the block it is to become
ExampleBlock ==
  <<L_open, L_code, L_log, GasLine(S_gas_wanted, V_100),
    GasLine(S_gas_used, V_50), L_events_last, L_close>>

ExampleFixed ==
  <<L_open, L_code, L_data, L_log, L_info,
    GasLine(S_gas_wanted, V_100 \o S_as_i64),
    GasLine(S_gas_used, V_50 \o S_as_i64), L_events, L_codespace, L_close>>

\* C7: the example scenario.  The block code: 0, / log: "ok", /
\* gas_wanted: 100, / gas_used: 50, / events: vec![] becomes code, data,
\* log, info, the two gas lines with ' as i64', events with its separator,
\* codespace.
C7_Example ==
  \A n \in 1..Len(blocks) :
    blocks[n].tx = ExampleBlock => blocks[n].fixed = ExampleFixed

\* the depth after the opener and the lines 2..n-1 of tx
BraceCount(tx, n, c) ==
  Cardinality(UNION {{<<m, q>> : q \in {q \in 1..Len(tx[m]) : tx[m][q] = c}} :
                     m \in 2..(n - 1)})

DepthBefore(tx, n) == 1 + BraceCount(tx, n, "{") - BraceCount(tx, n, "}")

\* taking line n of tx character by character from the left, the depth
\* reaches 0
ReachesZero(tx, n) ==
  \E r \in 1..Len(tx[n]) :
    DepthBefore(tx, n) + Count(SubSeq(tx[n], 1, r), "{")
                       - Count(SubSeq(tx[n], 1, r), "}") = 0

\* C8: the closing line.  Collection stops at the first line after the
\* opener on which the depth, counted character by character, reaches 0:
\* that line is the last line of the block and the next line is where the
\* scan goes on.
C8_ClosingLine ==
  \A n \in 1..Len(blocks) :
    \E tx \in {blocks[n].tx} :
      \A m \in 2..Len(tx) :
        (ReachesZero(tx, m) /\ \A m2 \in 2..(m - 1) : ~ReachesZero(tx, m2))
          => /\ m = Len(tx)
             /\ blocks[n].end = blocks[n].start + m

-----------------------------------------------------------------------------
(* Properties of fix_all_txresponse.py, checked under SpecAll *)

\* o is the line s, or s with ' as i64' added to a gas line
SameOrAnnotated(s, o) ==
  \/ o = s
  \/ /\ Contains(s, S_gas_wanted_colon) \/ Contains(s, S_gas_used_colon)
     /\ \E q \in 0..Len(s) :
          o = SubSeq(s, 1, q) \o S_as_i64 \o SubSeq(s, q + 1, Len(s))

\* the lines of a from ia on occur in b from ib on, in the same order, each
\* the same or annotated
RECURSIVE PreservedFrom(_, _, _, _)
PreservedFrom(a, b, ia, ib) ==
  IF ia > Len(a) THEN TRUE
  ELSE IF ib > Len(b) THEN FALSE
  ELSE IF SameOrAnnotated(a[ia], b[ib]) THEN PreservedFrom(a, b, ia + 1, ib + 1)
  ELSE PreservedFrom(a, b, ia, ib + 1)

\* C9: line preservation.  Every input line is in the written output in
\* its original relative order (a gas line possibly with ' as i64' added),
\* the opener line of each located block included.
C9_LinesPreserved ==
  (pc = "exit" /\ run = "first" /\ RunRead)
    => PreservedFrom(content.rest, disk[file_path].text.rest, 1, 1)

\* the number of the lines ls that hold the text sub
LinesWith(ls, sub) == Cardinality({n \in 1..Len(ls) : Contains(ls[n], sub)})

\* C10: no duplicate insertion.  A block that already holds data, info or
\* codespace gets no second copy of it, so each occurs at most once in every
\* output block, and a second run on the output changes nothing.
C10_NoDuplicate ==
  /\ \A n \in 1..Len(blocks) :
       \A f \in {S_data_colon, S_info_colon, S_codespace_colon} :
         /\ LinesWith(blocks[n].tx, f) >= 1
              => LinesWith(blocks[n].fixed, f) = LinesWith(blocks[n].tx, f)
         /\ LinesWith(blocks[n].fixed, f) <= 1
  /\ (pc = "exit" /\ run = "second" /\ RunRead)
       => disk[file_path].text = content

====
